---- MODULE Spec2Model ----
(***************************************************************************)
(* packmate/log: the logger factory of source/log.js.                      *)
(*                                                                         *)
(* module.exports(options) validates the identity options and returns      *)
(* configureLogger(name), which returns the closure log with log.error,    *)
(* log.request and log.append.  Every logging call writes to the console   *)
(* and then calls fetch with a JSON body.                                  *)
(*                                                                         *)
(* JavaScript values are tagged records.  A string is a sequence of        *)
(* one-character strings, so that split, join and the template literals    *)
(* are computed character by character; the fixed texts of the source      *)
(* (the URL prefix, the error messages) are single tokens.                 *)
(***************************************************************************)
EXTENDS Integers, Sequences, FiniteSets

VARIABLES
    factory,    \* the configureLogger closure last returned by module.exports
    loggers,    \* the log closures the caller holds, in order of creation
    chains,     \* history: for each of them, the names it was built from
    last,       \* the last call made: operation, arguments, what it did
    cmIn,       \* createMessage taken alone: its arguments
    cmOut       \* createMessage taken alone: its result

vars == <<factory, loggers, chains, last, cmIn, cmOut>>

----------------------------------------------------------------------------
(* Bounds of the model.                                                    *)

MaxLoggers == 3
MaxNotes == 3

----------------------------------------------------------------------------
(* JavaScript values.                                                      *)

Undefined == [t |-> "undefined"]
Null == [t |-> "null"]
Bool(b) == [t |-> "boolean", b |-> b]
Num(n) == [t |-> "number", n |-> n]
Str(s) == [t |-> "string", s |-> s]
\* A plain object: its own enumerable properties in insertion order.
Obj(props) == [t |-> "object", props |-> props]
Prop(k, v) == [k |-> k, v |-> v]
\* An Error instance: message and stack are own, non-enumerable properties.
ErrorObj(message, stack) == [t |-> "object", message |-> message, stack |-> stack]
\* A send capability: options.fetch, or node-fetch.  All the caller sees of it
\* is how an invocation ends: it throws, or it returns a promise that is
\* pending (a request in flight), resolved or rejected (a stub).
FetchFunction(behaviour) == [t |-> "function", behaviour |-> behaviour]
\* A promise, by its state when it is returned.
Promise(state) == [t |-> "promise", state |-> state]
\* The closure configureLogger that module.exports returns: it captures the
\* identity options.
FactoryClosure(config) == [t |-> "function", config |-> config]
\* The closure log that configureLogger returns: it captures name too.
LogClosure(name, config) == [t |-> "function", name |-> name, config |-> config]

IsErrorObj(v) == v.t = "object" /\ "message" \in DOMAIN v
IsPlainObj(v) == v.t = "object" /\ "props" \in DOMAIN v

TypeOf(v) == IF v.t = "null" THEN "object" ELSE v.t

\* ToBoolean: what `!x` and `if (x)` test.
Truthy(v) ==
    CASE v.t = "undefined" -> FALSE
      [] v.t = "null" -> FALSE
      [] v.t = "boolean" -> v.b
      [] v.t = "number" -> v.n # 0
      [] v.t = "string" -> Len(v.s) > 0
      [] OTHER -> TRUE

\* The decimal digits of a natural number.
RECURSIVE Digits(_)
Digits(n) ==
    CASE n = 0 -> <<"0">> [] n = 1 -> <<"1">> [] n = 2 -> <<"2">>
      [] n = 3 -> <<"3">> [] n = 4 -> <<"4">> [] n = 5 -> <<"5">>
      [] n = 6 -> <<"6">> [] n = 7 -> <<"7">> [] n = 8 -> <<"8">>
      [] n = 9 -> <<"9">>
      [] OTHER -> Digits(n \div 10) \o Digits(n % 10)

\* ToString, as a template literal `${ v }` applies it.
ToString(v) ==
    CASE v.t = "string" -> v.s
      [] v.t = "undefined" -> <<"u","n","d","e","f","i","n","e","d">>
      [] v.t = "null" -> <<"n","u","l","l">>
      [] v.t = "boolean" -> IF v.b THEN <<"t","r","u","e">> ELSE <<"f","a","l","s","e">>
      [] v.t = "number" -> Digits(v.n)
      [] OTHER -> <<"[object Object]">>

RECURSIVE Lookup(_, _)
Lookup(props, k) ==
    IF props = <<>> THEN Undefined
    ELSE IF Head(props).k = k THEN Head(props).v
    ELSE Lookup(Tail(props), k)

\* Property read v.k (or destructuring): undefined when v has no such property.
Get(v, k) ==
    IF IsPlainObj(v) THEN Lookup(v.props, k)
    ELSE IF IsErrorObj(v) /\ k = "message" THEN v.message
    ELSE IF IsErrorObj(v) /\ k = "stack" THEN v.stack
    ELSE Undefined

HasKey(v, k) == IsPlainObj(v) /\ \E i \in DOMAIN v.props : v.props[i].k = k

----------------------------------------------------------------------------
(* Strings.                                                                *)

\* s.split('+'): the pieces between the '+' characters, empty pieces kept.
RECURSIVE SplitFrom(_, _, _)
SplitFrom(rest, piece, done) ==
    IF rest = <<>> THEN Append(done, piece)
    ELSE IF Head(rest) = "+" THEN SplitFrom(Tail(rest), <<>>, Append(done, piece))
    ELSE SplitFrom(Tail(rest), Append(piece, Head(rest)), done)

Split(s) == SplitFrom(s, <<>>, <<>>)

\* parts.join(sep)
RECURSIVE Join(_, _)
Join(parts, sep) ==
    IF parts = <<>> THEN <<>>
    ELSE IF Len(parts) = 1 THEN parts[1]
    ELSE parts[1] \o sep \o Join(Tail(parts), sep)

\* text => `[${ text }]`
Bracket(text) == <<"[">> \o text \o <<"]">>

\* displayName with the pieces joined as they are, no brackets put around them.
displayName_noBrackets(name) == Join(Split(name), <<" ">>)

\* name.split('+').map(text => `[${ text }]`).join(' ')
displayName(name) ==
    LET pieces == Split(name)
    IN  Join([i \in DOMAIN pieces |-> Bracket(pieces[i])], <<" ">>)

----------------------------------------------------------------------------
(* Objects.                                                                *)

\* The array index a property key denotes, or -1 when it is not one.
ArrayIndex(k) ==
    CASE k = "0" -> 0 [] k = "1" -> 1 [] k = "2" -> 2 [] k = "3" -> 3
      [] OTHER -> -1

RECURSIVE IndexKeysFrom(_, _)
IndexKeysFrom(props, n) ==
    LET idx == {ArrayIndex(props[i].k) : i \in DOMAIN props}
        above == {x \in idx : x >= n}
    IN  IF above = {} THEN <<>>
        ELSE LET m == CHOOSE x \in above : \A y \in above : x <= y
                 i == CHOOSE j \in DOMAIN props : ArrayIndex(props[j].k) = m
             IN  <<props[i].k>> \o IndexKeysFrom(props, m + 1)

RECURSIVE NamedKeys(_)
NamedKeys(props) ==
    IF props = <<>> THEN <<>>
    ELSE IF ArrayIndex(Head(props).k) = -1
         THEN <<Head(props).k>> \o NamedKeys(Tail(props))
         ELSE NamedKeys(Tail(props))

\* Object.keys(o): the keys that are array indices in ascending order, then
\* the other keys in the order they were added.
ObjectKeys(o) == IndexKeysFrom(o.props, 0) \o NamedKeys(o.props)

\* FilterTruthy that keeps every key.
FilterTruthy_keepsAll(keys, o) == keys

\* keys.filter(key => !!o[key])
RECURSIVE FilterTruthy(_, _)
FilterTruthy(keys, o) ==
    IF keys = <<>> THEN <<>>
    ELSE IF Truthy(Get(o, Head(keys)))
         THEN <<Head(keys)>> \o FilterTruthy(Tail(keys), o)
         ELSE FilterTruthy(Tail(keys), o)

\* JSON.stringify(v), given as the document JSON.parse reads back from it:
\* a property whose value is undefined or a function is left out, and an
\* Error instance has no enumerable property, so it becomes {}.  The values
\* the calls are made with are ones JSON.stringify accepts: none has a cycle
\* or a BigInt, on which it would throw before fetch is invoked.
RECURSIVE JSONStringify(_)
JSONStringify(v) ==
    IF IsPlainObj(v) THEN
        LET RECURSIVE Kept(_)
            Kept(props) ==
                IF props = <<>> THEN <<>>
                ELSE IF Head(props).v.t \in {"undefined", "function"}
                     THEN Kept(Tail(props))
                     ELSE <<Prop(Head(props).k, JSONStringify(Head(props).v))>>
                          \o Kept(Tail(props))
        IN  Obj(Kept(v.props))
    ELSE IF IsErrorObj(v) THEN Obj(<<>>)
    ELSE v

----------------------------------------------------------------------------
(* What a call did: how it ended, what it returned, and the console writes *)
(* and fetch invocations it made, in the order it made them.               *)

Threw(error) == [outcome |-> "threw", error |-> error, events |-> <<>>, ret |-> Undefined]
Returned(ret) == [outcome |-> "returned", error |-> "", events |-> <<>>, ret |-> ret]

\* console.log(...args) / console.error(...args)
ConsoleWrite(channel, args) == [type |-> "console", channel |-> channel, args |-> args]

\* `return fetch(...)` once the events before it have happened: the invocation
\* either throws or returns its promise, which the caller gets back.
ReturnFetch(events, fetch) ==
    IF fetch.behaviour = "throws"
    THEN [outcome |-> "threw", error |-> "fetch threw", events |-> events, ret |-> Undefined]
    ELSE [outcome |-> "returned", error |-> "", events |-> events,
          ret |-> Promise(fetch.behaviour)]

----------------------------------------------------------------------------
(* source/log.js                                                           *)

\* require('node-fetch')
NodeFetch == FetchFunction("pending")

\* function createMessage(message, notes), in the closure of `name`
createMessage(name, message, notes) ==
    LET truthyNotes == FilterTruthy(ObjectKeys(notes), notes)
        suffix ==
            IF Truthy(notes) /\ Len(truthyNotes) > 0
            THEN <<" ", "(">>
                 \o Join([i \in DOMAIN truthyNotes |-> <<truthyNotes[i]>>], <<",", " ">>)
                 \o <<")">>
            ELSE <<>>
    IN  displayName(name) \o <<" ">> \o ToString(message) \o suffix

\* logRemotely that sends level 'info' whatever level it is given.
logRemotely_alwaysInfo(config, message, data, level) ==
    [type |-> "fetch",
     url |-> <<"https://api.logflare.app/logs?api_key=">> \o ToString(config.key)
             \o <<"&source=">> \o ToString(config.source),
     method |-> "POST",
     contentType |-> "application/json; charset=UTF-8",
     body |-> JSONStringify(Obj(<<
         Prop("log_entry", Str(message)),
         Prop("metadata", Obj(<<
             Prop("application", config.application),
             Prop("data", data),
             Prop("level", Str(<<"info">>)),
             Prop("mode", config.mode)>>))>>))]

\* function logRemotely(message, { data, level }): the fetch invocation
logRemotely(config, message, data, level) ==
    [type |-> "fetch",
     url |-> <<"https://api.logflare.app/logs?api_key=">> \o ToString(config.key)
             \o <<"&source=">> \o ToString(config.source),
     method |-> "POST",
     contentType |-> "application/json; charset=UTF-8",
     body |-> JSONStringify(Obj(<<
         Prop("log_entry", Str(message)),
         Prop("metadata", Obj(<<
             Prop("application", config.application),
             Prop("data", data),
             Prop("level", Str(<<level>>)),
             Prop("mode", config.mode)>>))>>))]

\* moduleExports with the test of `source` left out.
moduleExports_noSourceTest(options) ==
    LET opts == IF options = Undefined THEN Obj(<<>>) ELSE options
        fetch == IF Truthy(Get(opts, "fetch")) THEN Get(opts, "fetch") ELSE NodeFetch
        application == Get(opts, "application")
        key == Get(opts, "key")
        mode == Get(opts, "mode")
        source == Get(opts, "source")
    IN  IF ~Truthy(application) \/ ~Truthy(key) \/ ~Truthy(mode)
        THEN Threw("[configureLogger] Called without all required properties.")
        ELSE Returned(FactoryClosure([application |-> application, key |-> key,
                                      mode |-> mode, source |-> source,
                                      fetch |-> fetch]))

\* module.exports = (options = {}) => ...
moduleExports(options) ==
    LET opts == IF options = Undefined THEN Obj(<<>>) ELSE options
        fetch == IF Truthy(Get(opts, "fetch")) THEN Get(opts, "fetch") ELSE NodeFetch
        application == Get(opts, "application")
        key == Get(opts, "key")
        mode == Get(opts, "mode")
        source == Get(opts, "source")
    IN  IF ~Truthy(application) \/ ~Truthy(key) \/ ~Truthy(mode) \/ ~Truthy(source)
        THEN Threw("[configureLogger] Called without all required properties.")
        ELSE Returned(FactoryClosure([application |-> application, key |-> key,
                                      mode |-> mode, source |-> source,
                                      fetch |-> fetch]))

\* configureLogger without the test of `name`.
configureLogger_noNameTest(config, name) ==
    IF name.t # "string"
    THEN Threw("TypeError: name.split is not a function")
    ELSE Returned(LogClosure(name.s, config))

\* function configureLogger(name), in the closure of the options
configureLogger(config, name) ==
    IF ~Truthy(name)
    THEN Threw("[createLogger] Called without a name.")
    ELSE IF name.t # "string"
    THEN Threw("TypeError: name.split is not a function")
    ELSE Returned(LogClosure(name.s, config))

\* log that hands logRemotely no data.
log_sendsNoData(self, message, data, notes) ==
    IF ~Truthy(message)
    THEN Threw("[log] Called without a message.")
    ELSE LET fullMessage == createMessage(self.name, message, notes)
         IN  IF Truthy(data)
             THEN ReturnFetch(<<ConsoleWrite("log", <<Str(fullMessage), data>>),
                                logRemotely(self.config, fullMessage, Undefined, "info")>>,
                              self.config.fetch)
             ELSE ReturnFetch(<<ConsoleWrite("log", <<Str(fullMessage)>>),
                                logRemotely(self.config, fullMessage, Undefined, "info")>>,
                              self.config.fetch)

\* function log(message, data, notes)
log(self, message, data, notes) ==
    IF ~Truthy(message)
    THEN Threw("[log] Called without a message.")
    ELSE LET fullMessage == createMessage(self.name, message, notes)
         IN  IF Truthy(data)
             THEN ReturnFetch(<<ConsoleWrite("log", <<Str(fullMessage), data>>),
                                logRemotely(self.config, fullMessage, data, "info")>>,
                              self.config.fetch)
             ELSE ReturnFetch(<<ConsoleWrite("log", <<Str(fullMessage)>>),
                                logRemotely(self.config, fullMessage, Undefined, "info")>>,
                              self.config.fetch)

\* log.error that, given an error object and a data argument, sends the data
\* argument in place of { stack, error }.
logError_dataArgumentWins(self, errorOrMessage, data) ==
    IF ~Truthy(errorOrMessage)
    THEN Threw("[log.error] Called without an error or message.")
    ELSE IF TypeOf(errorOrMessage) = "string"
    THEN LET message == createMessage(self.name, errorOrMessage, Undefined)
         IN  IF Truthy(data)
             THEN ReturnFetch(<<ConsoleWrite("error", <<Str(message), data>>),
                                logRemotely(self.config, message, data, "error")>>,
                              self.config.fetch)
             ELSE ReturnFetch(<<ConsoleWrite("error", <<Str(message)>>),
                                logRemotely(self.config, message, Undefined, "error")>>,
                              self.config.fetch)
    ELSE IF TypeOf(errorOrMessage) = "object"
    THEN LET error == errorOrMessage
             message == createMessage(self.name, Get(error, "message"), Undefined)
             metadata == Obj(<<Prop("stack", Get(error, "stack")), Prop("error", error)>>)
         IN  ReturnFetch(<<ConsoleWrite("error", <<Str(message), metadata>>),
                            logRemotely(self.config, message,
                                        IF Truthy(data) THEN data ELSE metadata, "error")>>,
                          self.config.fetch)
    ELSE Returned(Undefined)

\* log.error = (errorOrMessage, data) => ...
logError(self, errorOrMessage, data) ==
    IF ~Truthy(errorOrMessage)
    THEN Threw("[log.error] Called without an error or message.")
    ELSE IF TypeOf(errorOrMessage) = "string"
    THEN LET message == createMessage(self.name, errorOrMessage, Undefined)
         IN  IF Truthy(data)
             THEN ReturnFetch(<<ConsoleWrite("error", <<Str(message), data>>),
                                logRemotely(self.config, message, data, "error")>>,
                              self.config.fetch)
             ELSE ReturnFetch(<<ConsoleWrite("error", <<Str(message)>>),
                                logRemotely(self.config, message, Undefined, "error")>>,
                              self.config.fetch)
    ELSE IF TypeOf(errorOrMessage) = "object"
    THEN LET error == errorOrMessage
             message == createMessage(self.name, Get(error, "message"), Undefined)
             metadata == Obj(<<Prop("stack", Get(error, "stack")), Prop("error", error)>>)
         IN  ReturnFetch(<<ConsoleWrite("error", <<Str(message), metadata>>),
                            logRemotely(self.config, message, metadata, "error")>>,
                          self.config.fetch)
    ELSE Returned(Undefined)

\* log.request that calls logRemotely first and writes to the console after:
\* a fetch that throws then leaves no write.
logRequest_sendsFirst(self, request) ==
    IF ~Truthy(request)
    THEN Threw("[log.request] Called without a request.")
    ELSE LET body == Get(request, "body")
             method == Get(request, "method")
             url == Get(request, "url")
             message == createMessage(self.name,
                            Str(ToString(method) \o <<" ">> \o ToString(url)), Undefined)
             send == logRemotely(self.config, message,
                                 IF Truthy(body) THEN body ELSE Undefined, "info")
             write == ConsoleWrite("log", IF Truthy(body) THEN <<Str(message), body>>
                                          ELSE <<Str(message)>>)
         IN  IF self.config.fetch.behaviour = "throws"
             THEN ReturnFetch(<<send>>, self.config.fetch)
             ELSE ReturnFetch(<<send, write>>, self.config.fetch)

\* log.request that hands logRemotely the body whether it is truthy or not.
logRequest_alwaysSendsBody(self, request) ==
    IF ~Truthy(request)
    THEN Threw("[log.request] Called without a request.")
    ELSE LET body == Get(request, "body")
             method == Get(request, "method")
             url == Get(request, "url")
             message == createMessage(self.name,
                            Str(ToString(method) \o <<" ">> \o ToString(url)), Undefined)
         IN  IF Truthy(Get(request, "body"))
             THEN ReturnFetch(<<ConsoleWrite("log", <<Str(message), Get(request, "body")>>),
                                logRemotely(self.config, message, body, "info")>>,
                              self.config.fetch)
             ELSE ReturnFetch(<<ConsoleWrite("log", <<Str(message)>>),
                                logRemotely(self.config, message, body, "info")>>,
                              self.config.fetch)

\* log.request = (request) => ...
logRequest(self, request) ==
    IF ~Truthy(request)
    THEN Threw("[log.request] Called without a request.")
    ELSE LET body == Get(request, "body")
             method == Get(request, "method")
             url == Get(request, "url")
             message == createMessage(self.name,
                            Str(ToString(method) \o <<" ">> \o ToString(url)), Undefined)
         IN  IF Truthy(Get(request, "body"))
             THEN ReturnFetch(<<ConsoleWrite("log", <<Str(message), Get(request, "body")>>),
                                logRemotely(self.config, message, body, "info")>>,
                              self.config.fetch)
             ELSE ReturnFetch(<<ConsoleWrite("log", <<Str(message)>>),
                                logRemotely(self.config, message, Undefined, "info")>>,
                              self.config.fetch)

\* log.append that joins the two names with nothing between them.
logAppend_noSeparator(self, newName) ==
    IF ~Truthy(newName)
    THEN Threw("[log.append] Called without a name.")
    ELSE configureLogger(self.config, Str(self.name \o ToString(newName)))

\* log.append = (newName) => ...
logAppend(self, newName) ==
    IF ~Truthy(newName)
    THEN Threw("[log.append] Called without a name.")
    ELSE configureLogger(self.config, Str(self.name \o <<"+">> \o ToString(newName)))

----------------------------------------------------------------------------
(* The arguments the calls are made with.                                  *)

Names == {Str(<<"a">>), Str(<<"a", "+", "b">>)}
NameArgs == {Undefined, Str(<<>>), Num(1)} \cup Names
AppendArgs == {Undefined, Str(<<>>), Str(<<"b">>)}

Fetches == {Undefined, FetchFunction("resolved"), FetchFunction("rejected"),
            FetchFunction("throws")}
OptionsArgs ==
    {Undefined} \cup
    {Obj(<<Prop("application", a), Prop("key", k), Prop("mode", m), Prop("source", s),
           Prop("fetch", f)>>) :
        a \in {Undefined, Str(<<"a", "p", "p">>)},
        k \in {Str(<<>>), Str(<<"k">>)},
        m \in {Null, Str(<<"d", "e", "v">>)},
        s \in {Num(0), Str(<<"s">>)},
        f \in Fetches}

SomeData == Obj(<<Prop("test", Str(<<"d">>))>>)
SomeNotes == Obj(<<Prop("note 1", Bool(TRUE)), Prop("note 2", Bool(FALSE))>>)
FalseNotes == Obj(<<Prop("note 1", Bool(FALSE))>>)
LogArgs ==
    {<<Undefined, Undefined, Undefined>>,
     <<Str(<<>>), SomeData, SomeNotes>>,
     <<Str(<<"m">>), Undefined, Undefined>>,
     <<Str(<<"m">>), Num(0), Undefined>>,
     <<Str(<<"m">>), SomeData, Undefined>>,
     <<Str(<<"m">>), Null, SomeNotes>>,
     <<Str(<<"m">>), SomeData, SomeNotes>>,
     <<Str(<<"m">>), SomeData, FalseNotes>>}

SomeError == ErrorObj(Str(<<"e">>), Str(<<"s", "t">>))
ErrorLike == Obj(<<Prop("message", Str(<<"e">>)), Prop("code", Num(7))>>)
ErrorArgs ==
    {<<Undefined, Undefined>>,
     <<Num(0), SomeData>>,
     <<Str(<<"m">>), Undefined>>,
     <<Str(<<"m">>), Num(0)>>,
     <<Str(<<"m">>), SomeData>>,
     <<Num(42), Undefined>>,
     <<SomeError, Undefined>>,
     <<SomeError, SomeData>>,
     <<ErrorLike, Undefined>>}

RequestArgs ==
    {Undefined,
     Null,
     Obj(<<Prop("method", Str(<<"G", "E", "T">>)), Prop("url", Str(<<"/">>))>>),
     Obj(<<Prop("method", Str(<<"P", "O", "S", "T">>)), Prop("url", Str(<<"/", "p">>)),
           Prop("body", Str(<<"b">>))>>),
     Obj(<<Prop("method", Str(<<"P", "U", "T">>)), Prop("url", Str(<<"/">>)),
           Prop("body", Null)>>)}

\* createMessage taken alone: every notes mapping of at most MaxNotes labels.
NoteKeys == {"note 1", "note 2", "1", "2"}
NoteValues == {Bool(TRUE), Bool(FALSE), Num(1), Num(0), Str(<<"o", "k">>)}
NoteMappings ==
    {Obj([i \in DOMAIN kv[1] |-> Prop(kv[1][i], kv[2][i])]) :
        kv \in UNION {
            {ks \in [1..n -> NoteKeys] : \A i, j \in 1..n : ks[i] = ks[j] => i = j}
                \X [1..n -> NoteValues] : n \in 0..MaxNotes}}
CreateMessageArgs ==
    [name : {<<"a">>, <<"a", "+", "b">>},
     message : {Str(<<"m">>)},
     notes : {Undefined} \cup NoteMappings]

----------------------------------------------------------------------------
(* The state machine.                                                      *)

NoCall == [op |-> "none", who |-> 0, self |-> Undefined, args |-> <<>>,
           result |-> Returned(Undefined)]
Call(op, who, self, args, result) ==
    [op |-> op, who |-> who, self |-> self, args |-> args, result |-> result]

Init ==
    /\ factory = Undefined
    /\ loggers = <<>>
    /\ chains = <<>>
    /\ last = NoCall
    /\ cmIn = Undefined
    /\ cmOut = Undefined

\* createLogger = require('./log')(options), until it returns the factory
\* whose loggers the model follows.
Configure ==
    /\ factory = Undefined
    /\ \E options \in OptionsArgs :
        LET r == moduleExports(options)
        IN  /\ factory' = IF r.outcome = "returned" THEN r.ret ELSE factory
            /\ last' = Call("configure", 0, Undefined, <<options>>, r)
            /\ UNCHANGED <<loggers, chains, cmIn, cmOut>>

\* log = createLogger(name)
CreateLogger ==
    /\ factory # Undefined
    /\ \E name \in NameArgs :
        LET r == configureLogger(factory.config, name)
        IN  /\ r.outcome = "returned" => Len(loggers) < MaxLoggers
            /\ loggers' = IF r.outcome = "returned" THEN Append(loggers, r.ret) ELSE loggers
            /\ chains' = IF r.outcome = "returned" THEN Append(chains, <<name>>) ELSE chains
            /\ last' = Call("createLogger", 0, Undefined, <<name>>, r)
            /\ UNCHANGED <<factory, cmIn, cmOut>>

\* append that renames the logger it is called on and hands it back.
AppendName_inPlace ==
    \E i \in DOMAIN loggers, newName \in AppendArgs :
        LET r == logAppend(loggers[i], newName)
        IN  /\ loggers' = IF r.outcome = "returned"
                          THEN [loggers EXCEPT ![i] = r.ret] ELSE loggers
            /\ chains' = IF r.outcome = "returned"
                         THEN [chains EXCEPT ![i] = Append(chains[i], newName)] ELSE chains
            /\ last' = Call("append", i, loggers[i], <<newName>>, r)
            /\ UNCHANGED <<factory, cmIn, cmOut>>

\* derived = loggers[i].append(newName)
AppendName ==
    \E i \in DOMAIN loggers, newName \in AppendArgs :
        LET r == logAppend(loggers[i], newName)
        IN  /\ r.outcome = "returned" => Len(loggers) < MaxLoggers
            /\ loggers' = IF r.outcome = "returned" THEN Append(loggers, r.ret) ELSE loggers
            /\ chains' = IF r.outcome = "returned"
                         THEN Append(chains, Append(chains[i], newName)) ELSE chains
            /\ last' = Call("append", i, loggers[i], <<newName>>, r)
            /\ UNCHANGED <<factory, cmIn, cmOut>>

\* loggers[i](message, data, notes)
Log ==
    \E i \in DOMAIN loggers, args \in LogArgs :
        /\ last' = Call("log", i, loggers[i], args,
                        log(loggers[i], args[1], args[2], args[3]))
        /\ UNCHANGED <<factory, loggers, chains, cmIn, cmOut>>

\* loggers[i].error(errorOrMessage, data)
LogError ==
    \E i \in DOMAIN loggers, args \in ErrorArgs :
        /\ last' = Call("error", i, loggers[i], args,
                        logError(loggers[i], args[1], args[2]))
        /\ UNCHANGED <<factory, loggers, chains, cmIn, cmOut>>

\* loggers[i].request(request)
LogRequest ==
    \E i \in DOMAIN loggers, request \in RequestArgs :
        /\ last' = Call("request", i, loggers[i], <<request>>,
                        logRequest(loggers[i], request))
        /\ UNCHANGED <<factory, loggers, chains, cmIn, cmOut>>

Next ==
    \/ Configure
    \/ CreateLogger
    \/ AppendName
    \/ Log
    \/ LogError
    \/ LogRequest

Spec == Init /\ [][Next]_vars

\* createMessage taken alone, on arguments drawn from CreateMessageArgs.
InitMessage ==
    /\ factory = Undefined
    /\ loggers = <<>>
    /\ chains = <<>>
    /\ last = NoCall
    /\ cmIn \in CreateMessageArgs
    /\ cmOut = Undefined

ApplyCreateMessage ==
    /\ cmOut = Undefined
    /\ cmOut' = Str(createMessage(cmIn.name, cmIn.message, cmIn.notes))
    /\ UNCHANGED <<factory, loggers, chains, last, cmIn>>

NextMessage == ApplyCreateMessage

SpecMessage == InitMessage /\ [][NextMessage]_vars

----------------------------------------------------------------------------
(* Vocabulary of the properties.                                           *)

LoggingOps == {"log", "error", "request"}

RECURSIVE EventsOf(_, _)
EventsOf(events, type) ==
    IF events = <<>> THEN <<>>
    ELSE IF Head(events).type = type
         THEN <<Head(events)>> \o EventsOf(Tail(events), type)
         ELSE EventsOf(Tail(events), type)

Writes(call) == EventsOf(call.result.events, "console")
Sends(call) == EventsOf(call.result.events, "fetch")

\* The metadata object of a fetch invocation's JSON body.
Metadata(send) == Get(send.body, "metadata")
LogEntry(send) == Get(send.body, "log_entry")

RequiredFields == {"application", "key", "mode", "source"}

\* The endpoint a configuration's key and source give.
Endpoint(config) ==
    <<"https://api.logflare.app/logs?api_key=">> \o config.key.s
        \o <<"&source=">> \o config.source.s

----------------------------------------------------------------------------
(* C1: every logging call whose required argument is truthy makes exactly  *)
(* one console write and exactly one invocation of fetch, whatever the     *)
(* argument is (a log.error argument that is neither a string nor an       *)
(* object included).                                                       *)

C1_OneWriteOneSend ==
    (last.op \in LoggingOps /\ Truthy(last.args[1])) =>
        (Len(Writes(last)) = 1 /\ Len(Sends(last)) = 1)

----------------------------------------------------------------------------
(* C2: module.exports(options) throws and returns no function when any of  *)
(* application, key, mode, source is missing or falsy; with all four       *)
(* truthy it returns the createLogger function, bound to those options.    *)

C2_ConfigureValidates ==
    last.op = "configure" =>
        LET options == last.args[1]
            r == last.result
        IN  IF \E f \in RequiredFields : ~Truthy(Get(options, f))
            THEN /\ r.outcome = "threw"
                 /\ r.ret = Undefined
                 /\ factory = Undefined
            ELSE /\ r.outcome = "returned"
                 /\ r.ret.t = "function"
                 /\ factory = r.ret
                 /\ \A f \in RequiredFields : r.ret.config[f] = Get(options, f)

C2_Witness ==
    /\ last.op = "configure"
    /\ last.result.outcome = "threw"
    /\ Truthy(Get(last.args[1], "application"))
    /\ Truthy(Get(last.args[1], "key"))
    /\ Truthy(Get(last.args[1], "mode"))
    /\ ~Truthy(Get(last.args[1], "source"))

----------------------------------------------------------------------------
(* C3 as claimed: for every truthy name n (a string), createLogger(n)      *)
(* returns a usable logger, and log(message) on it writes "[n] message":   *)
(* the whole name in one pair of brackets.                                 *)

\* The call last made was log(message), on a logger that createLogger made.
FirstLog ==
    /\ last.op = "log"
    /\ Truthy(last.args[1])
    /\ last.args[2] = Undefined
    /\ last.args[3] = Undefined
    /\ Len(chains[last.who]) = 1

\* "[n] message" for the name n the logger was created with.
WholeNameRendering ==
    Str(<<"[">> \o chains[last.who][1].s \o <<"]", " ">> \o last.args[1].s)

C3_WholeNameInBrackets ==
    /\ (last.op = "createLogger" /\ Truthy(last.args[1]) /\ last.args[1].t = "string") =>
            (last.result.outcome = "returned" /\ last.result.ret.t = "function")
    /\ FirstLog =>
            (Len(Writes(last)) = 1 /\ Writes(last)[1].args = <<WholeNameRendering>>)

(* C3: for every truthy string name n that contains no '+', createLogger(n)*)
(* returns a usable logger, and log(message) on it writes exactly          *)
(* "[n] message" to console.log.                                           *)

HasPlus(s) == \E i \in DOMAIN s : s[i] = "+"

C3_PlainNameInBrackets ==
    /\ (last.op = "createLogger" /\ Truthy(last.args[1])
            /\ last.args[1].t = "string" /\ ~HasPlus(last.args[1].s)) =>
            /\ last.result.outcome = "returned"
            /\ last.result.ret.t = "function"
            /\ loggers[Len(loggers)] = last.result.ret
    /\ (FirstLog /\ ~HasPlus(chains[last.who][1].s)) =>
            /\ Len(Writes(last)) = 1
            /\ Writes(last)[1].channel = "log"
            /\ Writes(last)[1].args = <<WholeNameRendering>>

C3_Witness ==
    /\ FirstLog
    /\ chains[last.who] = <<Str(<<"a">>)>>
    /\ Writes(last)[1].args = <<Str(<<"[", "a", "]", " ", "m">>)>>

----------------------------------------------------------------------------
(* C4: in every log, log.error and log.request call that gets as far as    *)
(* invoking fetch, the console write of that call has been made before the *)
(* invocation; and a fetch that throws or returns a rejected promise       *)
(* leaves that write as it is with a fetch that succeeds.                  *)

\* The call `call`, made again on a logger whose fetch resolves.
WithFetch(self, fetch) == [self EXCEPT !.config.fetch = fetch]
Redone(call) ==
    LET self == WithFetch(call.self, FetchFunction("resolved"))
    IN  CASE call.op = "log" -> log(self, call.args[1], call.args[2], call.args[3])
          [] call.op = "error" -> logError(self, call.args[1], call.args[2])
          [] call.op = "request" -> logRequest(self, call.args[1])

C4_WriteBeforeSend ==
    last.op \in LoggingOps =>
        LET events == last.result.events
        IN  /\ \A i \in DOMAIN events :
                events[i].type = "fetch" =>
                    \E j \in 1..(i - 1) : events[j].type = "console"
            /\ Writes(last) = EventsOf(Redone(last).events, "console")

C4_Witness ==
    /\ last.op \in LoggingOps
    /\ last.self.config.fetch.behaviour = "throws"
    /\ last.result.outcome = "threw"
    /\ Len(last.result.events) = 2
    /\ last.result.events[1].type = "console"
    /\ last.result.events[2].type = "fetch"

----------------------------------------------------------------------------
(* C5 as claimed: the suffix createMessage renders for a notes mapping     *)
(* lists exactly the labels whose value is truthy, in the order they were  *)
(* inserted; with no truthy label the result is that of a call without     *)
(* notes.                                                                  *)

RECURSIVE TruthyLabels(_)
TruthyLabels(props) ==
    IF props = <<>> THEN <<>>
    ELSE IF Truthy(Head(props).v)
         THEN <<Head(props).k>> \o TruthyLabels(Tail(props))
         ELSE TruthyLabels(Tail(props))

\* " (l1, l2, ...)" for the labels given, nothing for none.
RECURSIVE Listed(_)
Listed(labels) ==
    IF Len(labels) = 1 THEN <<labels[1]>>
    ELSE <<labels[1], ",", " ">> \o Listed(Tail(labels))
SuffixOf(labels) ==
    IF labels = <<>> THEN <<>> ELSE <<" ", "(">> \o Listed(labels) \o <<")">>

WithoutNotes == createMessage(cmIn.name, cmIn.message, Undefined)

C5_InsertionOrder ==
    (cmOut # Undefined /\ cmIn.notes # Undefined) =>
        cmOut = Str(WithoutNotes \o SuffixOf(TruthyLabels(cmIn.notes.props)))

(* C5: the suffix lists exactly the labels whose value is truthy, in the   *)
(* mapping's own key order: the labels that are array indices ("1", "2")   *)
(* first, in ascending numeric order, then the other labels in the order   *)
(* they were inserted; with no truthy label there is no suffix and the     *)
(* result is that of a call without notes.                                 *)

\* The labels of `labels` that are array indices, ascending.
RECURSIVE Ascending(_)
Ascending(indices) ==
    IF indices = {} THEN <<>>
    ELSE LET m == CHOOSE x \in indices : \A y \in indices : x <= y
         IN  <<Digits(m)[1]>> \o Ascending(indices \ {m})

KeyOrder(labels) ==
    Ascending({ArrayIndex(labels[i]) : i \in DOMAIN labels} \ {-1})
        \o SelectSeq(labels, LAMBDA l : ArrayIndex(l) = -1)

C5_KeyOrder ==
    (cmOut # Undefined /\ cmIn.notes # Undefined) =>
        LET labels == TruthyLabels(cmIn.notes.props)
        IN  /\ cmOut = Str(WithoutNotes \o SuffixOf(KeyOrder(labels)))
            /\ labels = <<>> => cmOut = Str(WithoutNotes)

C5_Witness ==
    /\ cmIn # Undefined
    /\ cmIn.name = <<"a">>
    /\ cmIn.notes = Obj(<<Prop("note 2", Num(1)), Prop("note 1", Bool(FALSE)),
                          Prop("1", Str(<<"o", "k">>))>>)
    /\ cmOut = Str(<<"[", "a", "]", " ", "m", " ", "(", "1", ",", " ", "note 2", ")">>)

----------------------------------------------------------------------------
(* C6 as claimed: log(message, data) with a truthy message writes          *)
(* [formattedMessage, data] and sends metadata.data = data whenever a data *)
(* argument is supplied; without one it writes one argument and sends no   *)
(* data key.                                                               *)

----------------------------------------------------------------------------
(* C7: a logger reached by a chain of appends renders one bracketed        *)
(* segment per segment of the names it was built from, in order, joined by *)
(* spaces: createLogger(a).append(b) logs with prefix "[a] [b]",           *)
(* a.append(b).append(c) with "[a] [b] [c]", and two loggers built from    *)
(* the same segments grouped differently render the same prefix.           *)

\* The '+'-separated segments of the names of a chain, in order.
RECURSIVE Segments(_)
Segments(chain) ==
    IF chain = <<>> THEN <<>>
    ELSE Split(ToString(Head(chain))) \o Segments(Tail(chain))

\* "[s1] [s2] ..." for the segments given.
RECURSIVE Bracketed(_)
Bracketed(segments) ==
    IF Len(segments) = 1 THEN <<"[">> \o segments[1] \o <<"]">>
    ELSE <<"[">> \o segments[1] \o <<"]", " ">> \o Bracketed(Tail(segments))

IsPrefix(p, s) == Len(p) <= Len(s) /\ SubSeq(s, 1, Len(p)) = p

C7_AppendJoinsSegments ==
    /\ \A i \in DOMAIN loggers :
            displayName(loggers[i].name) = Bracketed(Segments(chains[i]))
    /\ \A i, j \in DOMAIN loggers :
            Segments(chains[i]) = Segments(chains[j]) =>
                displayName(loggers[i].name) = displayName(loggers[j].name)
    /\ (last.op = "log" /\ Truthy(last.args[1])) =>
            IsPrefix(Bracketed(Segments(chains[last.who])) \o <<" ">> \o last.args[1].s,
                     Writes(last)[1].args[1].s)

C7_Witness ==
    /\ last.op = "log"
    /\ Truthy(last.args[1])
    /\ chains[last.who] = <<Str(<<"a">>), Str(<<"b">>), Str(<<"b">>)>>
    /\ IsPrefix(<<"[", "a", "]", " ", "[", "b", "]", " ", "[", "b", "]", " ", "m">>,
                Writes(last)[1].args[1].s)
    /\ \E j \in DOMAIN loggers :
            /\ chains[j] = <<Str(<<"a">>), Str(<<"b">>)>>
            /\ displayName(loggers[j].name) = <<"[", "a", "]", " ", "[", "b", "]">>

----------------------------------------------------------------------------
(* C8: append never mutates the logger it is called on.  No call changes a *)
(* logger that exists: it keeps its name and its configuration.  A derived *)
(* logger is a new one, named "{name}+{newName}", with the configuration   *)
(* of the logger it was derived from; and every logging call, on an        *)
(* original or a derived logger, renders that logger's own name and sends  *)
(* to the endpoint, and with the application and mode, of the factory.     *)

Derived ==
    /\ last'.op = "append"
    /\ last'.result.outcome = "returned"

C8_AppendKeepsOriginal ==
    /\ [][/\ \A i \in DOMAIN loggers :
                i \in DOMAIN loggers' /\ loggers'[i] = loggers[i]
          /\ Derived =>
                /\ Len(loggers') = Len(loggers) + 1
                /\ loggers'[Len(loggers')].config = loggers[last'.who].config
                /\ loggers'[Len(loggers')].name =
                       loggers[last'.who].name \o <<"+">> \o ToString(last'.args[1])]_vars
    /\ [](\A i \in DOMAIN loggers : loggers[i].config = factory.config)
    /\ []((last.op \in LoggingOps /\ Len(Sends(last)) > 0) =>
            LET send == Sends(last)[1]
            IN  /\ last.self = loggers[last.who]
                /\ IsPrefix(Bracketed(Segments(chains[last.who])) \o <<" ">>,
                            Writes(last)[1].args[1].s)
                /\ send.url = Endpoint(factory.config)
                /\ Get(Metadata(send), "application") = factory.config.application
                /\ Get(Metadata(send), "mode") = factory.config.mode)

C8_Witness ==
    /\ Len(loggers) = MaxLoggers
    /\ \E i \in DOMAIN loggers : Len(chains[i]) > 1
    /\ last.op \in LoggingOps
    /\ Len(chains[last.who]) = 1
    /\ last.who = 1
    /\ Len(Sends(last)) = 1
    /\ IsPrefix(<<"[", "a", "]", " ">>, Writes(last)[1].args[1].s)

----------------------------------------------------------------------------
(* C9: createLogger, log, log.error, log.request and log.append called     *)
(* with a falsy required argument throw their error at the call, before    *)
(* any effect: the call makes no console write and no fetch invocation,    *)
(* returns nothing, and leaves the loggers that exist as they are.         *)

ErrorOf(op) ==
    CASE op = "createLogger" -> "[createLogger] Called without a name."
      [] op = "log" -> "[log] Called without a message."
      [] op = "error" -> "[log.error] Called without an error or message."
      [] op = "request" -> "[log.request] Called without a request."
      [] op = "append" -> "[log.append] Called without a name."

RejectingOps == {"createLogger", "log", "error", "request", "append"}

C9_FalsyArgumentThrows ==
    [][(last'.op \in RejectingOps /\ ~Truthy(last'.args[1])) =>
            /\ last'.result.outcome = "threw"
            /\ last'.result.error = ErrorOf(last'.op)
            /\ last'.result.events = <<>>
            /\ last'.result.ret = Undefined
            /\ loggers' = loggers
            /\ factory' = factory]_vars

C9_Witness ==
    /\ last.op = "error"
    /\ last.args = <<Num(0), SomeData>>
    /\ last.result.outcome = "threw"
    /\ last.result.events = <<>>
    /\ Len(loggers) = 2

----------------------------------------------------------------------------
(* C10: log.error called with an error object writes                       *)
(* [formattedMessage, {stack, error}] to console.error, formattedMessage   *)
(* being the bracketed display name, a space and the object's message, and *)
(* sends level "error" with data = {stack, error}, stack being the         *)
(* object's stack, whatever data argument it is given; called with a       *)
(* string it sends level "error", and data only if data was supplied.      *)

C10_ErrorObject ==
    (last.op = "error" /\ Truthy(last.args[1])
        /\ TypeOf(last.args[1]) \in {"string", "object"}) =>
        LET arg == last.args[1]
            write == Writes(last)[1]
            metadata == Metadata(Sends(last)[1])
            prefix == Bracketed(Segments(chains[last.who])) \o <<" ">>
            stackAndError == Obj(<<Prop("stack", Get(arg, "stack")), Prop("error", arg)>>)
        IN  /\ write.channel = "error"
            /\ Get(metadata, "level") = Str(<<"error">>)
            /\ IF TypeOf(arg) = "object"
               THEN /\ write.args = <<Str(prefix \o Get(arg, "message").s), stackAndError>>
                    /\ Get(metadata, "data") = JSONStringify(stackAndError)
                    /\ Get(Get(metadata, "data"), "stack") = Get(arg, "stack")
                    /\ HasKey(Get(metadata, "data"), "error")
               ELSE /\ write.args[1] = Str(prefix \o arg.s)
                    /\ HasKey(metadata, "data") =>
                            (last.args[2] # Undefined
                                /\ Get(metadata, "data") = last.args[2])

C10_Witness ==
    /\ last.op = "error"
    /\ last.args = <<SomeError, SomeData>>
    /\ Writes(last)[1].args[2] =
            Obj(<<Prop("stack", Str(<<"s", "t">>)), Prop("error", SomeError)>>)
    /\ Get(Get(Metadata(Sends(last)[1]), "data"), "stack") = Str(<<"s", "t">>)

----------------------------------------------------------------------------
(* C11: log.request(request) with a truthy request writes to console.log   *)
(* and sends, at level "info", the message "[name] {method} {url}"; the    *)
(* request body is the second console argument and the metadata.data sent  *)
(* exactly when the body is truthy, and otherwise the console receives one *)
(* argument and the metadata sent has no data property.                    *)

C11_RequestLogged ==
    (last.op = "request" /\ Truthy(last.args[1])) =>
        LET request == last.args[1]
            write == Writes(last)[1]
            send == Sends(last)[1]
            message == Str(Bracketed(Segments(chains[last.who])) \o <<" ">>
                           \o ToString(Get(request, "method")) \o <<" ">>
                           \o ToString(Get(request, "url")))
        IN  /\ Len(Writes(last)) = 1
            /\ Len(Sends(last)) = 1
            /\ write.channel = "log"
            /\ LogEntry(send) = message
            /\ Get(Metadata(send), "level") = Str(<<"info">>)
            /\ IF Truthy(Get(request, "body"))
               THEN /\ write.args = <<message, Get(request, "body")>>
                    /\ HasKey(Metadata(send), "data")
                    /\ Get(Metadata(send), "data") = Get(request, "body")
               ELSE /\ write.args = <<message>>
                    /\ ~HasKey(Metadata(send), "data")

C11_Witness ==
    /\ last.op = "request"
    /\ Truthy(last.args[1])
    /\ Get(last.args[1], "body") = Str(<<"b">>)
    /\ chains[last.who] = <<Str(<<"a">>)>>
    /\ Writes(last)[1].args =
            <<Str(<<"[", "a", "]", " ", "P", "O", "S", "T", " ", "/", "p">>),
              Str(<<"b">>)>>
    /\ Get(Metadata(Sends(last)[1]), "data") = Str(<<"b">>)

----------------------------------------------------------------------------
(* C12 as claimed: in every log, log.error and log.request call that       *)
(* returns or reaches fetch, the log_entry sent is the first console       *)
(* argument, the metadata sent has a data value exactly when the console   *)
(* write has a second argument, and it is that same value, and the level   *)
(* sent is "error" exactly when the write went to console.error and "info" *)
(* when it went to console.log.                                            *)

\* The level a console channel stands for.
LevelOf(channel) == IF channel = "error" THEN Str(<<"error">>) ELSE Str(<<"info">>)

\* The call last made was a logging call that wrote or sent something.
Logged == last.op \in LoggingOps /\ (Len(Writes(last)) > 0 \/ Len(Sends(last)) > 0)

C12_LocalRemoteAgree ==
    Logged =>
        /\ Len(Writes(last)) = 1
        /\ Len(Sends(last)) = 1
        /\ LET write == Writes(last)[1]
               send == Sends(last)[1]
           IN  /\ LogEntry(send) = write.args[1]
               /\ HasKey(Metadata(send), "data") <=> Len(write.args) = 2
               /\ Len(write.args) = 2 => Get(Metadata(send), "data") = write.args[2]
               /\ Get(Metadata(send), "level") = LevelOf(write.channel)

(* C12: as claimed, except that the data value sent is the second console  *)
(* argument as JSON carries it: equal to it when it is JSON data (log's    *)
(* data, a request body), while of the {stack, error} that log.error       *)
(* writes for an error object, an Error instance is sent as {} and a stack *)
(* that is undefined is left out; the stack sent is the stack written.     *)

\* v is JSON data: JSON.parse(JSON.stringify(v)) is v again.
RECURSIVE IsJSONData(_)
IsJSONData(v) ==
    /\ v.t \in {"null", "boolean", "number", "string", "object"}
    /\ ~IsErrorObj(v)
    /\ IsPlainObj(v) => \A i \in DOMAIN v.props : IsJSONData(v.props[i].v)

C12_LocalRemoteAgreeAsJSON ==
    Logged =>
        /\ Len(Writes(last)) = 1
        /\ Len(Sends(last)) = 1
        /\ LET write == Writes(last)[1]
               send == Sends(last)[1]
               data == Get(Metadata(send), "data")
           IN  /\ LogEntry(send) = write.args[1]
               /\ HasKey(Metadata(send), "data") <=> Len(write.args) = 2
               /\ Get(Metadata(send), "level") = LevelOf(write.channel)
               /\ write.channel = "error" <=> last.op = "error"
               /\ Len(write.args) = 2 =>
                    IF IsJSONData(write.args[2])
                    THEN data = write.args[2]
                    ELSE /\ last.op = "error"
                         /\ TypeOf(last.args[1]) = "object"
                         /\ data # write.args[2]
                         /\ data = JSONStringify(write.args[2])
                         /\ Get(data, "stack") = Get(write.args[2], "stack")
                         /\ IsErrorObj(last.args[1]) => Get(data, "error") = Obj(<<>>)
                         /\ ~IsErrorObj(last.args[1]) =>
                                Get(data, "error") = Get(write.args[2], "error")

C12_Witness ==
    /\ last.op = "error"
    /\ last.args[1] = SomeError
    /\ last.result.outcome = "returned"
    /\ Writes(last)[1].args[2] =
            Obj(<<Prop("stack", Str(<<"s", "t">>)), Prop("error", SomeError)>>)
    /\ Get(Metadata(Sends(last)[1]), "data") =
            Obj(<<Prop("stack", Str(<<"s", "t">>)), Prop("error", Obj(<<>>))>>)
    /\ LogEntry(Sends(last)[1]) = Writes(last)[1].args[1]

====
